---- MODULE Spec2Model ----
(***************************************************************************)
(* Career assessment backend: the scoring and matching engine and the      *)
(* request that runs it.                                                   *)
(*                                                                         *)
(*   backend/models/question.py    Question, QuestionSet                   *)
(*   backend/models/department.py  Department, DepartmentMatcher           *)
(*   backend/models/result.py      ResultSummary                           *)
(*   backend/routers/results.py    POST /api/results (submit_test)         *)
(*   backend/utils/id_generator.py the set of issued result ids            *)
(*   backend/database/seed.py      the seeded questions                    *)
(*                                                                         *)
(* Numbers with one decimal (aptitude scores, match percentages) are kept  *)
(* as integers counting tenths: 4.3 is 43, 100.0 is 1000.  The Korean      *)
(* string constants of the source are written as ASCII glosses, the        *)
(* original is given in the comment next to each.                          *)
(***************************************************************************)
EXTENDS Integers, Sequences, FiniteSets

VARIABLES
    questions,      \* QuestionSet.questions: the catalog the set was built with
    answers,        \* the answers argument of the last calculate_score call
    score_result,   \* what that call produced (a dict or a raised error)
    answer_score,   \* the last Question.calculate_answer_score call and its value
    user_scores,    \* the scores argument of the last analyze_personality call
    personality,    \* what that call produced (a label or a raised error)
    departments,    \* DepartmentMatcher.departments
    match_args,     \* the arguments of the last match_departments call
    match_result,   \* what that call produced (a dict or a raised error)
    left,           \* the argument lists of the last call as the call left them
    similar_args,   \* the arguments of the last find_similar_by_tags call
    similar_result, \* the list that call returned
    first_run,      \* the calls and results of an earlier run on the same inputs
    generated_ids,  \* id_generator._generated_ids
    test_results,   \* the rows of the test_results table
    response,       \* the response to the last HTTP request
    returned        \* the successful responses of submit_test that clients hold
                    \* and whose id no delete_result has deleted since

similarVars == <<similar_args, similar_result>>

apiVars == <<generated_ids, test_results, response, returned>>

vars == <<questions, answers, score_result, answer_score, user_scores, personality,
          departments, match_args, match_result, left, similarVars, first_run,
          apiVars>>

-----------------------------------------------------------------------------
(* Bounds of the model *)

\* longest question catalog, and longest answer list, that is enumerated
MaxQ == 3

\* longest department list that is enumerated
MaxD == 3

\* greatest top_n and worst_n that is enumerated
MaxN == 3

\* longest department list that is enumerated for the tag recommendation
MaxTagged == 4

\* most result ids that are issued in a behaviour
MaxIssued == 2

-----------------------------------------------------------------------------
(* question.py: constants *)

\* the 10 aptitude names, order fixed
APTITUDE_NAMES ==
    << "language",              \* 언어능력
       "logic_analysis",        \* 논리/분석력
       "creativity",            \* 창의력
       "sociability_empathy",   \* 사회성/공감능력
       "initiative_leadership", \* 주도성/리더십
       "physical_activity",     \* 신체-활동성
       "art_spatial",           \* 예술감각/공간지각
       "systematic_meticulous", \* 체계성/꼼꼼함
       "inquiry",               \* 탐구심
       "problem_solving" >>     \* 문제해결능력

\* the value a call has before it was made
NoCall == [status |-> "none"]

\* nothing was called on the tag recommendation, no earlier run, no request
SimilarIdle == similar_args = NoCall /\ similar_result = NoCall

RunIdle == left = NoCall /\ first_run = NoCall

ApiIdle == generated_ids = {} /\ test_results = <<>> /\ response = NoCall /\ returned = {}

-----------------------------------------------------------------------------
(* Generic helpers *)

Range(s) == {s[i] : i \in 1..Len(s)}

RECURSIVE SumSeq(_)
SumSeq(s) == IF s = <<>> THEN 0 ELSE Head(s) + SumSeq(Tail(s))

\* all sequences over S of length 0..n
SeqsUpTo(S, n) == UNION {[1..k -> S] : k \in 0..n}

\* the orders a Python list(set(...)) can come out in: every element once
Orderings(S) ==
    {s \in [1..Cardinality(S) -> S] : \A i, j \in 1..Cardinality(S) : s[i] = s[j] => i = j}

\* a round(...) that cuts the second decimal off instead of rounding
RoundTenths_truncating(total, count) == (10 * total) \div count

\* Python's round(total / count, 1), in tenths: the nearest tenth of the
\* quotient, an exact half going to the even tenth.  (A half only arises
\* when 4 divides count, and for the counts modelled here the quotient x.25
\* or x.75 is then exact in binary floating point.)
RoundTenths(total, count) ==
    LET num == 10 * total
        q   == num \div count
        r   == num % count
    IN  IF 2 * r < count THEN q
        ELSE IF 2 * r > count THEN q + 1
        ELSE IF q % 2 = 0 THEN q ELSE q + 1

-----------------------------------------------------------------------------
(* question.py: Question *)

\* a reverse scoring that is off by one
calculate_answer_score_five_minus(question, answer) ==
    IF question.is_reverse THEN 5 - answer ELSE answer

\* Question.calculate_answer_score
calculate_answer_score(question, answer) ==
    IF question.is_reverse THEN 6 - answer ELSE answer

-----------------------------------------------------------------------------
(* question.py: QuestionSet *)

\* QuestionSet._build_aptitude_map: for each aptitude name the indices, in
\* catalog order, of the questions of that aptitude; a question whose
\* aptitude_type is none of the 10 names is in no list
RECURSIVE IndicesOf(_, _, _)
IndicesOf(qs, apt, i) ==
    IF i > Len(qs) THEN <<>>
    ELSE IF qs[i].aptitude_type = apt
         THEN <<i>> \o IndicesOf(qs, apt, i + 1)
         ELSE IndicesOf(qs, apt, i + 1)

build_aptitude_map(qs) ==
    [apt \in Range(APTITUDE_NAMES) |-> IndicesOf(qs, apt, 1)]

\* a category entry that is the sum of the scores, not their mean
category_score_sum(qs, ans, question_indices) ==
    10 * SumSeq([k \in 1..Len(question_indices) |->
                    calculate_answer_score(qs[question_indices[k]],
                                           ans[question_indices[k]])])

\* the body of the loop over APTITUDE_NAMES in calculate_score: the entry of
\* the aptitude whose questions are at question_indices
category_score(qs, ans, question_indices) ==
    LET scores == [k \in 1..Len(question_indices) |->
                      calculate_answer_score(qs[question_indices[k]],
                                             ans[question_indices[k]])]
    IN  IF question_indices = <<>>
        THEN 0
        ELSE RoundTenths(SumSeq(scores), Len(scores))

\* an emission order that follows the catalog: the categories in the order
\* their first question appears, then the categories without questions
RECURSIVE FirstSeen(_, _)
FirstSeen(qs, acc) ==
    IF qs = <<>> THEN acc
    ELSE LET t == Head(qs).aptitude_type
         IN  FirstSeen(Tail(qs),
                       IF t \in Range(acc) \/ t \notin Range(APTITUDE_NAMES)
                       THEN acc ELSE Append(acc, t))

category_order_of_catalog(qs) ==
    FirstSeen(qs, <<>>)
        \o SelectSeq(APTITUDE_NAMES, LAMBDA apt : apt \notin Range(FirstSeen(qs, <<>>)))

\* the order in which calculate_score emits the categories: the loop
\* "for aptitude in APTITUDE_NAMES", whatever the catalog
category_order(qs) == APTITUDE_NAMES

\* a tag extraction that tests the raw answer, not the corrected score
extract_interest_tags_raw_answer(qs, ans) ==
    UNION {Range(qs[i].tags) : i \in {j \in 1..Len(ans) : ans[j] >= 4}}

\* QuestionSet._extract_interest_tags, before list(set(tags)): the tags of
\* the questions with a corrected score of 4 or more
extract_interest_tags(qs, ans) ==
    UNION {Range(qs[i].tags) :
             i \in {j \in 1..Len(ans) : calculate_answer_score(qs[j], ans[j]) >= 4}}

\* a calculate_score that only refuses answer lists that are too short and
\* ignores the answers beyond the last question
calculate_score_short_only(qs, ans) ==
    IF Len(ans) < Len(qs)
    THEN [status |-> "ValueError"]
    ELSE [status          |-> "ok",
          aptitude_scores |-> [i \in 1..Len(APTITUDE_NAMES) |->
                                  category_score(qs, ans,
                                      IndicesOf(qs, APTITUDE_NAMES[i], 1))],
          tag_set         |-> extract_interest_tags(qs, SubSeq(ans, 1, Len(qs)))]

\* QuestionSet.calculate_score, up to the order of the tag list
calculate_score(qs, ans) ==
    IF Len(ans) # Len(qs)
    THEN [status |-> "ValueError"]
    ELSE LET aptitude_question_map == build_aptitude_map(qs)
         IN  [status          |-> "ok",
              aptitude_scores |-> [i \in 1..Len(APTITUDE_NAMES) |->
                                      category_score(qs, ans,
                                          aptitude_question_map[category_order(qs)[i]])],
              tag_set         |-> extract_interest_tags(qs, ans)]

\* the question list and the answer list after calculate_score: the method
\* only reads them
calculate_score_leaves(qs, ans) == [questions |-> qs, answers |-> ans]

\* QuestionSet.analyze_personality: indexed_scores after sort(reverse=True),
\* a list of (score, idx) pairs, idx counted from 0, greatest pair first
PairLess(a, b) == a[1] < b[1] \/ (a[1] = b[1] /\ a[2] < b[2])

RECURSIVE SortReverse(_)
SortReverse(S) ==
    IF S = {} THEN <<>>
    ELSE LET top == CHOOSE a \in S : \A b \in S \ {a} : PairLess(b, a)
         IN  <<top>> \o SortReverse(S \ {top})

indexed_scores_sorted(scores) ==
    SortReverse({<<scores[i], i - 1>> : i \in 1..Len(scores)})

\* a selection that takes the first index holding the maximum
top1_idx_first_max(scores) ==
    (CHOOSE i \in 1..Len(scores) :
        /\ \A j \in 1..Len(scores) : scores[j] <= scores[i]
        /\ \A j \in 1..(i - 1) : scores[j] < scores[i]) - 1

\* the index analyze_personality selects
top1_idx(scores) == indexed_scores_sorted(scores)[1][2]

personality_map ==
    [idx \in 0..9 |->
        CASE idx = 0 -> "language_type"     \* 언어형
          [] idx = 1 -> "logic_type"        \* 논리형
          [] idx = 2 -> "creative_type"     \* 창의형
          [] idx = 3 -> "social_type"       \* 사회형
          [] idx = 4 -> "leader_type"       \* 리더형
          [] idx = 5 -> "active_type"       \* 활동형
          [] idx = 6 -> "art_type"          \* 예술형
          [] idx = 7 -> "systematic_type"   \* 체계형
          [] idx = 8 -> "inquiry_type"      \* 탐구형
          [] idx = 9 -> "execution_type"]   \* 실행형

\* a lookup that counts the index from 1
personality_label_one_based(idx) ==
    IF idx + 1 \in DOMAIN personality_map THEN personality_map[idx + 1] ELSE "balanced_type"

\* personality_map.get(top1_idx, "균형형")
personality_label(idx) ==
    IF idx \in DOMAIN personality_map THEN personality_map[idx] ELSE "balanced_type"

\* a length check that only refuses vectors that are too short
analyze_personality_at_least_10(scores) ==
    IF Len(scores) < 10
    THEN [status |-> "ValueError"]
    ELSE [status |-> "ok", label |-> personality_label(top1_idx(scores))]

analyze_personality(scores) ==
    IF Len(scores) # 10
    THEN [status |-> "ValueError"]
    ELSE [status |-> "ok", label |-> personality_label(top1_idx(scores))]

\* the scores list turned around where it is
analyze_personality_leaves_reversed(scores) ==
    [scores |-> [k \in 1..Len(scores) |-> scores[Len(scores) + 1 - k]]]

\* the scores list after analyze_personality: the method sorts
\* indexed_scores, a list of its own
analyze_personality_leaves(scores) == [scores |-> scores]

-----------------------------------------------------------------------------
(* result.py: ResultSummary *)

\* the keys of personality_templates (each maps to its own sentence head)
personality_templates ==
    { "logic_type", "creative_type", "inquiry_type", "social_type",
      "leader_type", "active_type", "art_type", "systematic_type",
      "execution_type", "language_type" }

\* ResultSummary.generate_personality_summary: the template it picks, the
\* label's own or the default "당신은 다재다능한"
generate_personality_summary(label) ==
    IF label \in personality_templates THEN <<"template", label>> ELSE <<"default">>

-----------------------------------------------------------------------------
(* department.py: DepartmentMatcher *)

\* the greatest r with r * r <= m, by bisection between lo and hi
RECURSIVE ISqrtBetween(_, _, _)
ISqrtBetween(m, lo, hi) ==
    IF lo >= hi THEN lo
    ELSE LET mid == (lo + hi + 1) \div 2
         IN  IF mid * mid <= m THEN ISqrtBetween(m, mid, hi)
                               ELSE ISqrtBetween(m, lo, mid - 1)

ISqrt(m) == ISqrtBetween(m, 0, 46340)

\* the user scores handed on as they are, without the rescaling
scale_user_scores_unscaled(scores) == scores

\* the user scores (tenths, 1-5 scale) times 2, in tenths of the 1-10 scale
scale_user_scores(scores) == [i \in 1..Len(scores) |-> 2 * scores[i]]

\* the percentage without max(0, min(100, ...))
calculate_match_percentage_unclamped(scaled, dept_scores) ==
    LET n == SumSeq([i \in 1..Len(scaled) |->
                        (scaled[i] - 10 * dept_scores[i]) * (scaled[i] - 10 * dept_scores[i])])
    IN  1000 - ((ISqrt(4000 * n) \div 9) + 1) \div 2

\* the percentage with max_distance^2 = 10 * 10^2 = 1000 instead of 810:
\* x = 1000 * sqrt(n / 100000), so (2x)^2 = 40 n
calculate_match_percentage_max_1000(scaled, dept_scores) ==
    LET n == SumSeq([i \in 1..Len(scaled) |->
                        (scaled[i] - 10 * dept_scores[i]) * (scaled[i] - 10 * dept_scores[i])])
        c == (ISqrt(40 * n) + 1) \div 2
    IN  IF 1000 - c < 0 THEN 0 ELSE IF 1000 - c > 1000 THEN 1000 ELSE 1000 - c

\* DepartmentMatcher.calculate_match_percentage, in tenths of a percent.
\* With u the scaled user scores in tenths and d the department scores,
\* distance^2 = n / 100 for n = sum (u[i] - 10 d[i])^2, and
\* max_distance^2 = 10 * 9^2 = 810, so match_rate = 100 - x / 10 for
\* x = 1000 * sqrt(n / 81000); the rounded value is 1000 - c for c the
\* integer nearest to x (x is never half-way between two integers),
\* clamped to 0..1000.
calculate_match_percentage(scaled, dept_scores) ==
    LET n == SumSeq([i \in 1..Len(scaled) |->
                        (scaled[i] - 10 * dept_scores[i]) * (scaled[i] - 10 * dept_scores[i])])
        \* x = 1000 * sqrt(n / 81000), so (2x)^2 = 4000000 n / 81000 = 4000 n / 81
        twice_x_floor == ISqrt(4000 * n) \div 9
        c == (twice_x_floor + 1) \div 2
    IN  IF 1000 - c < 0 THEN 0 ELSE IF 1000 - c > 1000 THEN 1000 ELSE 1000 - c

\* a match reason that asks only the user's value to reach 7
generate_match_reason_user_only(scaled, dept) ==
    LET qualifying == {i \in 1..Len(scaled) : scaled[i] >= 70}
        strong_matches == [k \in 1..Cardinality(qualifying) |->
                              LET i == CHOOSE x \in qualifying :
                                          Cardinality({y \in qualifying : y < x}) = k - 1
                              IN  <<APTITUDE_NAMES[i], scaled[i] \div 2>>]
    IN  IF strong_matches = <<>>
        THEN [kind |-> "generic_match"]
        ELSE [kind |-> "strengths",
              named |-> SubSeq(strong_matches, 1,
                               IF Len(strong_matches) < 2 THEN Len(strong_matches) ELSE 2)]

\* DepartmentMatcher.generate_match_reason: the generic sentence
\* "전반적으로 적성이 잘 맞습니다", or the sentence naming the first two
\* categories where user and department both reach 7, each with the user's
\* value on the 1-5 scale (round(user / 2, 1), in tenths)
generate_match_reason(scaled, dept) ==
    LET qualifying == {i \in 1..Len(scaled) :
                          scaled[i] >= 70 /\ dept.aptitude_scores[i] >= 7}
        strong_matches == [k \in 1..Cardinality(qualifying) |->
                              LET i == CHOOSE x \in qualifying :
                                          Cardinality({y \in qualifying : y < x}) = k - 1
                              IN  <<APTITUDE_NAMES[i], scaled[i] \div 2>>]
    IN  IF strong_matches = <<>>
        THEN [kind |-> "generic_match"]
        ELSE [kind |-> "strengths",
              named |-> SubSeq(strong_matches, 1,
                               IF Len(strong_matches) < 2 THEN Len(strong_matches) ELSE 2)]

\* the keys of reason_templates in generate_mismatch_reason
reason_templates ==
    { "physical_activity", "art_spatial", "sociability_empathy", "language",
      "logic_analysis", "creativity", "initiative_leadership",
      "systematic_meticulous", "inquiry", "problem_solving" }

\* a mismatch reason about the category with the largest gap
generate_mismatch_reason_largest_gap(scaled, dept) ==
    LET weaknesses == {i \in 1..Len(scaled) :
                          10 * dept.aptitude_scores[i] - scaled[i] >= 50}
        first == CHOOSE i \in weaknesses : \A j \in weaknesses :
                     \/ 10 * dept.aptitude_scores[i] - scaled[i]
                            > 10 * dept.aptitude_scores[j] - scaled[j]
                     \/ /\ 10 * dept.aptitude_scores[i] - scaled[i]
                              = 10 * dept.aptitude_scores[j] - scaled[j]
                        /\ i <= j
    IN  IF weaknesses = {}
        THEN [kind |-> "generic_mismatch"]
        ELSE [kind     |-> "weakness",
              apt_name |-> APTITUDE_NAMES[first],
              apt_score |-> scaled[first] \div 2,
              template |-> IF APTITUDE_NAMES[first] \in reason_templates
                           THEN APTITUDE_NAMES[first]
                           ELSE "fallback"]

\* DepartmentMatcher.generate_mismatch_reason: the generic sentence
\* "전반적으로 적성이 맞지 않습니다", or the sentence about weaknesses[0], the
\* first category where the department exceeds the user by 5 or more, with
\* that category's template or the fallback "학과 특성과 적성이 잘 맞지 않아요"
generate_mismatch_reason(scaled, dept) ==
    LET weaknesses == {i \in 1..Len(scaled) :
                          10 * dept.aptitude_scores[i] - scaled[i] >= 50}
        first == CHOOSE i \in weaknesses : \A j \in weaknesses : i <= j
    IN  IF weaknesses = {}
        THEN [kind |-> "generic_mismatch"]
        ELSE [kind     |-> "weakness",
              apt_name |-> APTITUDE_NAMES[first],
              apt_score |-> scaled[first] \div 2,
              template |-> IF APTITUDE_NAMES[first] \in reason_templates
                           THEN APTITUDE_NAMES[first]
                           ELSE "fallback"]

\* the list left in the order it was built in
SortDescending_unsorted(list, key) == list

\* list.sort(key=..., reverse=True): descending by key, entries with equal
\* keys staying in their order (the sort is stable)
RECURSIVE InsertDescending(_, _, _)
InsertDescending(sorted, entry, key) ==
    IF sorted = <<>> THEN <<entry>>
    ELSE IF Head(sorted)[key] >= entry[key]
         THEN <<Head(sorted)>> \o InsertDescending(Tail(sorted), entry, key)
         ELSE <<entry>> \o sorted

RECURSIVE SortDescending(_, _)
SortDescending(list, key) ==
    IF list = <<>> THEN <<>>
    ELSE InsertDescending(SortDescending(SubSeq(list, 1, Len(list) - 1), key),
                          list[Len(list)], key)

\* the entries of every department that shares a tag, excluded or not
RECURSIVE similar_entries_all_ids(_, _, _)
similar_entries_all_ids(depts, user_tags, exclude_ids) ==
    IF depts = <<>> THEN <<>>
    ELSE LET common == Range(user_tags) \cap Range(Head(depts).tags)
             rest   == similar_entries_all_ids(Tail(depts), user_tags, exclude_ids)
         IN  IF Cardinality(common) >= 1
             THEN <<[department      |-> Head(depts),
                     common_set      |-> common,
                     tag_match_count |-> Cardinality(common)]>> \o rest
             ELSE rest

\* DepartmentMatcher.find_similar_by_tags, up to the order of each
\* common_tags list (list(common)); user_tags is a list of tags, exclude_ids
\* the set of the ids in the exclude_ids list, and min_common_tags is at its
\* default 1, as in the one call the repository makes
RECURSIVE similar_entries(_, _, _)
similar_entries(depts, user_tags, exclude_ids) ==
    IF depts = <<>> THEN <<>>
    ELSE LET dept   == Head(depts)
             common == Range(user_tags) \cap Range(dept.tags)
             rest   == similar_entries(Tail(depts), user_tags, exclude_ids)
         IN  IF dept.id \in exclude_ids THEN rest
             ELSE IF Cardinality(common) >= 1
                  THEN <<[department      |-> dept,
                          common_set      |-> common,
                          tag_match_count |-> Cardinality(common)]>> \o rest
                  ELSE rest

\* the entries in the order of the department list
find_similar_by_tags_unsorted(depts, user_tags, exclude_ids) ==
    similar_entries(depts, user_tags, exclude_ids)

find_similar_by_tags(depts, user_tags, exclude_ids) ==
    SortDescending(similar_entries(depts, user_tags, exclude_ids), "tag_match_count")

\* the department list and the tag list after find_similar_by_tags: the
\* method builds sets of the tags and sorts similar_depts, a list of its own
find_similar_by_tags_leaves(depts, user_tags) ==
    [departments |-> depts, user_tags |-> user_tags]

\* Python's list[:n] and list[-n:] for n >= 0
SliceFirst(list, n) == SubSeq(list, 1, IF n < Len(list) THEN n ELSE Len(list))

\* a slice of the last n + 1 elements
SliceLast_one_more(list, n) ==
    IF n + 1 >= Len(list) THEN list ELSE SubSeq(list, Len(list) - n, Len(list))

SliceLast(list, n) ==
    IF n = 0 \/ n >= Len(list) THEN list ELSE SubSeq(list, Len(list) - n + 1, Len(list))

Reversed(list) == [k \in 1..Len(list) |-> list[Len(list) + 1 - k]]

\* "if user_tags:" is false for None and for the empty list
Truthy(user_tags) == user_tags.given /\ user_tags.list # <<>>

\* a matcher that refuses an empty department list
match_departments_refusing_empty(depts, scores, user_tags, top_n, worst_n) ==
    IF Len(scores) # 10 \/ depts = <<>>
    THEN [status |-> "ValueError"]
    ELSE [status |-> "ok", top |-> <<>>, worst |-> <<>>, similar |-> <<>>]

\* a matcher that adds a mismatch reason to every entry of matches
match_departments_all_mismatch(depts, scores, user_tags, top_n, worst_n) ==
    IF Len(scores) # 10
    THEN [status |-> "ValueError"]
    ELSE LET scaled  == scale_user_scores(scores)
             matches == SortDescending(
                            [k \in 1..Len(depts) |->
                                [department       |-> depts[k],
                                 match_percentage |-> calculate_match_percentage(
                                                          scaled, depts[k].aptitude_scores),
                                 reason           |-> generate_match_reason(scaled, depts[k]),
                                 mismatch_reason  |-> generate_mismatch_reason(
                                                          scaled, depts[k])]],
                            "match_percentage")
             top_matches == SliceFirst(matches, top_n)
         IN  [status  |-> "ok",
              top     |-> top_matches,
              worst   |-> Reversed(SliceLast(matches, worst_n)),
              similar |-> IF Truthy(user_tags)
                          THEN SliceFirst(
                                   find_similar_by_tags(depts, user_tags.list,
                                       {top_matches[k].department.id : k \in 1..Len(top_matches)}),
                                   3)
                          ELSE <<>>]

\* DepartmentMatcher.match_departments, up to the order of the common_tags
\* lists.  The entries of top and worst are the dicts of the sorted list
\* matches, so a dict that worst holds, and that got a mismatch_reason
\* there, shows it in top as well.
match_departments(depts, scores, user_tags, top_n, worst_n) ==
    IF Len(scores) # 10
    THEN [status |-> "ValueError"]
    ELSE LET scaled  == scale_user_scores(scores)
             matches == SortDescending(
                            [k \in 1..Len(depts) |->
                                [department       |-> depts[k],
                                 match_percentage |-> calculate_match_percentage(
                                                          scaled, depts[k].aptitude_scores),
                                 reason           |-> generate_match_reason(scaled, depts[k])]],
                            "match_percentage")
             worst_first == IF worst_n = 0 \/ worst_n >= Len(matches)
                            THEN 1 ELSE Len(matches) - worst_n + 1
             annotated == [k \in 1..Len(matches) |->
                              IF k >= worst_first
                              THEN [department       |-> matches[k].department,
                                    match_percentage |-> matches[k].match_percentage,
                                    reason           |-> matches[k].reason,
                                    mismatch_reason  |-> generate_mismatch_reason(
                                                             scaled, matches[k].department)]
                              ELSE matches[k]]
             top_matches == SliceFirst(annotated, top_n)
             worst_matches == Reversed(SliceLast(annotated, worst_n))
         IN  [status  |-> "ok",
              top     |-> top_matches,
              worst   |-> worst_matches,
              similar |-> IF Truthy(user_tags)
                          THEN SliceFirst(
                                   find_similar_by_tags(depts, user_tags.list,
                                       {top_matches[k].department.id : k \in 1..Len(top_matches)}),
                                   3)
                          ELSE <<>>]

\* the department list turned around where it is
match_departments_leaves_reversed(depts, scores, user_tags) ==
    [departments |-> Reversed(depts), user_scores |-> scores, user_tags |-> user_tags]

\* the department list, the scores list and the user_tags argument after
\* match_departments: the method scales into user_scores_scaled, sorts
\* matches and turns worst_matches around, lists of its own, and hands the
\* tags on to find_similar_by_tags
match_departments_leaves(depts, scores, user_tags) ==
    LET s == IF Len(scores) = 10 /\ Truthy(user_tags)
             THEN find_similar_by_tags_leaves(depts, user_tags.list)
             ELSE [departments |-> depts, user_tags |-> user_tags.list]
    IN  [departments |-> s.departments,
         user_scores |-> scores,
         user_tags   |-> [given |-> user_tags.given, list |-> s.user_tags]]

-----------------------------------------------------------------------------
(* Inputs *)

\* the questions a catalog is made of: two of the 10 aptitudes (the first
\* and the last of the fixed order) and one aptitude_type that is none of
\* the 10; forward questions carry tags, as in seed.py
QuestionPool ==
    { [aptitude_type |-> "language",        is_reverse |-> FALSE, tags |-> <<"reading", "writing">>],
      [aptitude_type |-> "language",        is_reverse |-> TRUE,  tags |-> <<"writing">>],
      [aptitude_type |-> "problem_solving", is_reverse |-> FALSE, tags |-> <<"reading">>],
      [aptitude_type |-> "unlisted",        is_reverse |-> FALSE, tags |-> <<"writing">>] }

\* answer values: 1..4 are valid ones (a reverse question turns 1 into 5),
\* 6 lies outside 1..5 (and a reverse question turns it into 0)
AnswerValues == {1, 2, 3, 4, 6}

Catalogs == SeqsUpTo(QuestionPool, MaxQ)

\* the answer lists tried on a catalog of n questions: every list of n
\* values, and lists that are shorter or longer by any amount
AnswerLists(n) ==
    [1..n -> AnswerValues]
        \cup UNION {[1..k -> {1, 5}] : k \in (0..(MaxQ + 1)) \ {n}}

-----------------------------------------------------------------------------
(* Scoring: a QuestionSet is built, calculate_score is called on it *)

InitScore ==
    /\ questions \in Catalogs
    /\ answers = <<>>
    /\ score_result = NoCall
    /\ answer_score = NoCall
    /\ user_scores = <<>>
    /\ personality = NoCall
    /\ departments = <<>>
    /\ match_args = NoCall
    /\ match_result = NoCall
    /\ SimilarIdle /\ RunIdle /\ ApiIdle

\* submit_test builds one QuestionSet per request and calls calculate_score
\* on it once (results.py, steps 1 and 2); a behaviour follows one call
CalculateScoreOn(lists) ==
    /\ score_result = NoCall
    /\ answer_score = NoCall
    /\ \E ans \in lists :
        LET r == calculate_score(questions, ans)
            l == calculate_score_leaves(questions, ans)
        IN  /\ answers' = ans
            /\ questions' = l.questions
            /\ left' = [of |-> "calculate_score", answers |-> l.answers]
            /\ \/ /\ r.status = "ok"
                  /\ \E tl \in Orderings(r.tag_set) :
                        score_result' = [status          |-> "ok",
                                         aptitude_scores |-> r.aptitude_scores,
                                         interest_tags   |-> tl]
               \/ /\ r.status # "ok"
                  /\ score_result' = r
            /\ UNCHANGED <<answer_score, user_scores, personality, departments,
                           match_args, match_result, similarVars, first_run,
                           apiVars>>

CalculateScore == CalculateScoreOn(AnswerLists(Len(questions)))

\* Question.calculate_answer_score called on one question of the catalog
CalculateAnswerScore ==
    /\ score_result = NoCall
    /\ answer_score = NoCall
    /\ \E i \in 1..Len(questions), answer \in AnswerValues \cup {5} :
          answer_score' = [status   |-> "ok",
                           question |-> questions[i],
                           answer   |-> answer,
                           score    |-> calculate_answer_score(questions[i], answer)]
    /\ UNCHANGED <<questions, answers, score_result, user_scores, personality,
                   departments, match_args, match_result, left, similarVars,
                   first_run, apiVars>>

NextScore == CalculateScore \/ CalculateAnswerScore

SpecScore == InitScore /\ [][NextScore]_vars

-----------------------------------------------------------------------------
(* Scoring on catalogs that mix two categories and an unlisted one *)

OrderPool ==
    { [aptitude_type |-> "language",        is_reverse |-> FALSE, tags |-> <<>>],
      [aptitude_type |-> "problem_solving", is_reverse |-> TRUE,  tags |-> <<>>],
      [aptitude_type |-> "unlisted",        is_reverse |-> FALSE, tags |-> <<>>] }

InitOrder ==
    /\ questions \in SeqsUpTo(OrderPool, MaxQ)
    /\ answers = <<>>
    /\ score_result = NoCall
    /\ answer_score = NoCall
    /\ user_scores = <<>>
    /\ personality = NoCall
    /\ departments = <<>>
    /\ match_args = NoCall
    /\ match_result = NoCall
    /\ SimilarIdle /\ RunIdle /\ ApiIdle

NextOrder == CalculateScore

SpecOrder == InitOrder /\ [][NextOrder]_vars

-----------------------------------------------------------------------------
(* Classification: analyze_personality is called on a score vector *)

\* score values in tenths; 0 is what a category without questions gets
ScoreValues == {0, 30, 45}

\* vectors of 10 values, and vectors that are too short or too long
ScoreVectors ==
    [1..10 -> ScoreValues] \cup UNION {[1..k -> {30}] : k \in {0, 1, 9, 11}}

InitPersonality ==
    /\ questions = <<>>
    /\ answers = <<>>
    /\ score_result = NoCall
    /\ answer_score = NoCall
    /\ user_scores = <<>>
    /\ personality = NoCall
    /\ departments = <<>>
    /\ match_args = NoCall
    /\ match_result = NoCall
    /\ SimilarIdle /\ RunIdle /\ ApiIdle

\* analyze_personality called on one of the given vectors; a behaviour
\* follows one call
AnalyzePersonalityOn(vectors) ==
    /\ personality = NoCall
    /\ match_result = NoCall
    /\ \E scores \in vectors :
          /\ user_scores' = scores
          /\ personality' = analyze_personality(scores)
          /\ left' = [of     |-> "analyze_personality",
                      scores |-> analyze_personality_leaves(scores).scores]
    /\ UNCHANGED <<questions, answers, score_result, answer_score,
                   departments, match_args, match_result, similarVars,
                   first_run, apiVars>>

AnalyzePersonality == AnalyzePersonalityOn(ScoreVectors)

NextPersonality == AnalyzePersonality

SpecPersonality == InitPersonality /\ [][NextPersonality]_vars

-----------------------------------------------------------------------------
(* Matching: a DepartmentMatcher is built, match_departments is called on it *)

AllScores(v) == [i \in 1..10 |-> v]

\* the departments a list is made of; ids are distinct (the primary key of
\* the departments table)
DepartmentPool ==
    { [id |-> 1, aptitude_scores |-> AllScores(6),  tags |-> <<"reading">>],
      [id |-> 2, aptitude_scores |-> AllScores(10), tags |-> <<"reading", "writing">>],
      [id |-> 3, aptitude_scores |-> <<9, 8, 7, 1, 1, 1, 1, 1, 6, 9>>, tags |-> <<"coding">>],
      [id |-> 4, aptitude_scores |-> AllScores(6),  tags |-> <<"writing">>] }

\* lists of up to MaxD departments, none twice
DepartmentLists ==
    {list \in SeqsUpTo(DepartmentPool, MaxD) :
        \A i, j \in 1..Len(list) : list[i] = list[j] => i = j}

\* user vectors in tenths: 3.0 everywhere, 0.5 everywhere, 0 everywhere (the
\* score of categories without questions), a mixed profile; and vectors that
\* are too short or too long
MatchVectors ==
    { AllScores(30), AllScores(5), AllScores(0),
      <<45, 40, 35, 10, 30, 30, 30, 30, 5, 20>>,
      <<>>, [i \in 1..9 |-> 30], [i \in 1..11 |-> 30] }

\* the user_tags argument: missing (None), empty, or a list of tags
UserTagArgs ==
    { [given |-> FALSE, list |-> <<>>],
      [given |-> TRUE,  list |-> <<>>],
      [given |-> TRUE,  list |-> <<"writing">>],
      [given |-> TRUE,  list |-> <<"reading", "writing">>] }

\* the lists that differ from entries only in the order of each common_tags
RECURSIVE with_common_tags(_)
with_common_tags(entries) ==
    IF entries = <<>> THEN {<<>>}
    ELSE {<<[department      |-> Head(entries).department,
             common_tags     |-> tl,
             tag_match_count |-> Head(entries).tag_match_count]>> \o rest :
            tl \in Orderings(Head(entries).common_set),
            rest \in with_common_tags(Tail(entries))}

InitMatch ==
    /\ questions = <<>>
    /\ answers = <<>>
    /\ score_result = NoCall
    /\ answer_score = NoCall
    /\ user_scores = <<>>
    /\ personality = NoCall
    /\ departments \in DepartmentLists
    /\ match_args = NoCall
    /\ match_result = NoCall
    /\ SimilarIdle /\ RunIdle /\ ApiIdle

\* match_departments called once on the matcher, with one of the given
\* vectors, user_tags arguments, top_n and worst_n
MatchDepartmentsOn(vectors, tag_args, tops, worsts) ==
    /\ match_result = NoCall
    /\ \E scores \in vectors, tags \in tag_args, top_n \in tops, worst_n \in worsts :
          LET r == match_departments(departments, scores, tags, top_n, worst_n)
              l == match_departments_leaves(departments, scores, tags)
          IN  /\ match_args' = [status |-> "called", user_scores |-> scores,
                                user_tags |-> tags, top_n |-> top_n, worst_n |-> worst_n]
              /\ departments' = l.departments
              /\ left' = [of         |-> "match_departments",
                          user_scores |-> l.user_scores,
                          user_tags   |-> l.user_tags]
              /\ \/ /\ r.status = "ok"
                    /\ \E similar \in with_common_tags(r.similar) :
                          match_result' = [status  |-> "ok",
                                           top     |-> r.top,
                                           worst   |-> r.worst,
                                           similar |-> similar]
                 \/ /\ r.status # "ok"
                    /\ match_result' = r
    /\ UNCHANGED <<questions, answers, score_result, answer_score, user_scores,
                   personality, similarVars, first_run, apiVars>>

\* submit_test builds one DepartmentMatcher per request and calls
\* match_departments on it once, with the vector it gave analyze_personality
\* if it called that before (results.py, steps 3 and 4)
MatchDepartments ==
    MatchDepartmentsOn(IF personality = NoCall THEN MatchVectors ELSE {user_scores},
                       UserTagArgs, 0..MaxN, 0..MaxN)

NextMatch == MatchDepartments \/ AnalyzePersonalityOn(MatchVectors)

SpecMatch == InitMatch /\ [][NextMatch]_vars

-----------------------------------------------------------------------------
(* Tag recommendation: find_similar_by_tags is called on a matcher, by    *)
(* itself or from match_departments                                        *)

SimilarPool ==
    DepartmentPool
        \cup { [id |-> 5, aptitude_scores |-> AllScores(6),
                tags |-> <<"coding", "writing", "reading">>] }

\* lists of up to MaxTagged departments, none twice
SimilarLists ==
    {list \in SeqsUpTo(SimilarPool, MaxTagged) :
        \A i, j \in 1..Len(list) : list[i] = list[j] => i = j}

\* user tag lists: empty, one tag, two tags, a tag twice, a tag of no department
TagLists ==
    { <<>>, <<"writing">>, <<"reading", "writing">>,
      <<"writing", "coding", "writing">>, <<"design">> }

\* exclude_ids: None or the empty list, one id, two ids
ExcludeArgs == { {}, {1}, {2, 5} }

InitSimilar ==
    /\ questions = <<>>
    /\ answers = <<>>
    /\ score_result = NoCall
    /\ answer_score = NoCall
    /\ user_scores = <<>>
    /\ personality = NoCall
    /\ departments \in SimilarLists
    /\ match_args = NoCall
    /\ match_result = NoCall
    /\ SimilarIdle /\ RunIdle /\ ApiIdle

\* find_similar_by_tags called once on the matcher
FindSimilarByTags ==
    /\ similar_result = NoCall
    /\ match_result = NoCall
    /\ \E tags \in TagLists, exclude_ids \in ExcludeArgs :
          LET l == find_similar_by_tags_leaves(departments, tags)
          IN  /\ similar_args' = [status |-> "called", user_tags |-> tags,
                                  exclude_ids |-> exclude_ids]
              /\ \E list \in with_common_tags(
                                find_similar_by_tags(departments, tags, exclude_ids)) :
                    similar_result' = [status |-> "ok", list |-> list]
              /\ departments' = l.departments
              /\ left' = [of |-> "find_similar_by_tags", user_tags |-> l.user_tags]
    /\ UNCHANGED <<questions, answers, score_result, answer_score, user_scores,
                   personality, match_args, match_result, first_run, apiVars>>

\* match_departments called once on the matcher with a list of tags
MatchWithTags ==
    /\ similar_result = NoCall
    /\ MatchDepartmentsOn({AllScores(30)},
                          {[given |-> TRUE, list |-> tags] : tags \in TagLists},
                          0..1, {1})

NextSimilar == FindSimilarByTags \/ MatchWithTags

SpecSimilar == InitSimilar /\ [][NextSimilar]_vars

-----------------------------------------------------------------------------
(* The engine run twice: calculate_score, analyze_personality and          *)
(* match_departments are called in the order of submit_test, the results   *)
(* are kept, and the three are called again on the same QuestionSet and    *)
(* DepartmentMatcher with the same answers                                 *)

\* catalogs of two different questions, the first on language
RunCatalogs ==
    {catalog \in Catalogs :
        /\ Len(catalog) = 2
        /\ catalog[1].aptitude_type = "language"
        /\ catalog[1] # catalog[2]}

\* two answers each of 2 or 4, and a list that is too short
RunAnswerLists == [1..2 -> {2, 4}] \cup {<<4>>}

InitRun ==
    /\ questions \in RunCatalogs
    /\ answers = <<>>
    /\ score_result = NoCall
    /\ answer_score = NoCall
    /\ user_scores = <<>>
    /\ personality = NoCall
    /\ departments \in DepartmentLists
    /\ match_args = NoCall
    /\ match_result = NoCall
    /\ SimilarIdle /\ RunIdle /\ ApiIdle

\* step 2 of submit_test; the second run repeats the answers of the first
RunScore ==
    CalculateScoreOn(IF first_run = NoCall THEN RunAnswerLists
                                           ELSE {first_run.answers})

\* step 3: the aptitude scores go to analyze_personality
RunPersonality ==
    /\ score_result # NoCall
    /\ score_result.status = "ok"
    /\ AnalyzePersonalityOn({score_result.aptitude_scores})

\* step 4: the aptitude scores and the interest tags go to match_departments,
\* with top_n = worst_n = 3 as in submit_test, or with top_n = 1
RunMatch ==
    /\ score_result # NoCall
    /\ score_result.status = "ok"
    /\ personality # NoCall
    /\ MatchDepartmentsOn({score_result.aptitude_scores},
                          {[given |-> TRUE, list |-> score_result.interest_tags]},
                          IF first_run = NoCall THEN {1, 3}
                                                ELSE {first_run.match_args.top_n},
                          {3})

\* the caller keeps what the first run returned and starts over
RunAgain ==
    /\ match_result # NoCall
    /\ first_run = NoCall
    /\ first_run' = [status       |-> "done",
                     answers      |-> answers,
                     score_result |-> score_result,
                     personality  |-> personality,
                     match_args   |-> match_args,
                     match_result |-> match_result]
    /\ answers' = <<>>
    /\ score_result' = NoCall
    /\ user_scores' = <<>>
    /\ personality' = NoCall
    /\ match_args' = NoCall
    /\ match_result' = NoCall
    /\ left' = NoCall
    /\ UNCHANGED <<questions, answer_score, departments, similarVars, apiVars>>

NextRun == RunScore \/ RunPersonality \/ RunMatch \/ RunAgain

SpecRun == InitRun /\ [][NextRun]_vars

-----------------------------------------------------------------------------
(* routers/results.py and utils/id_generator.py: POST /api/results.  Here  *)
(* questions and departments are the rows of the two tables.  The time     *)
(* stamp created_at and the strength and interest sentences of the summary *)
(* are left out.                                                           *)

\* TestSubmission.validate_answers demands exactly this many answers
REQUIRED_ANSWERS == 20

\* length of a result id
ID_LENGTH == 8

\* Python's None
None == [kind |-> "None"]

\* TestSubmission.validate_answers: TRUE when the submission is accepted
validate_answers(v) ==
    /\ Len(v) = REQUIRED_ANSWERS
    /\ \A i \in 1..Len(v) : 1 <= v[i] /\ v[i] <= 5

\* load_departments_from_db after the check for no rows: a row that
\* Department refuses (its scores are not 10) is skipped
load_departments_from_db(rows) ==
    SelectSeq(rows, LAMBDA row : Len(row.aptitude_scores) = 10)

\* format_department_match and format_similar_department of submit_test
format_department_match(match) ==
    [department       |-> [id |-> match.department.id],
     match_percentage |-> match.match_percentage,
     reason           |-> match.reason,
     mismatch_reason  |-> IF "mismatch_reason" \in DOMAIN match
                          THEN match.mismatch_reason ELSE None]

format_similar_department(match) ==
    [department      |-> [id |-> match.department.id],
     common_set      |-> match.common_set,
     tag_match_count |-> match.tag_match_count]

\* save_result_to_db: the row is inserted, or the insert fails and the
\* exception is swallowed (saved = FALSE)
save_result_to_db(rows, test_result, saved) ==
    IF saved
    THEN Append(rows, [id              |-> test_result.id,
                       user_answers    |-> test_result.user_answers,
                       user_scores     |-> test_result.user_scores,
                       top_departments |-> test_result.top_departments])
    ELSE rows

\* an error response that also issues the id
submission_failed_id_issued(status, detail, result_id, ids, rows) ==
    [response      |-> [request |-> "submit_test", status |-> status, detail |-> detail],
     generated_ids |-> ids \cup {result_id},
     test_results  |-> rows]

\* what a request leaves that ends in an HTTPException: every raise of
\* submit_test comes before generate_result_id and save_result_to_db
submission_failed(status, detail, result_id, ids, rows) ==
    [response      |-> [request |-> "submit_test", status |-> status, detail |-> detail],
     generated_ids |-> ids,
     test_results  |-> rows]

\* the lists of submit_test, formatted
format_department_matches(list) ==
    [k \in 1..Len(list) |-> format_department_match(list[k])]

format_similar_departments(list) ==
    [k \in 1..Len(list) |-> format_similar_department(list[k])]

\* steps 5 to 9 of submit_test: the id is issued, the result is built from
\* the formatted lists, saved and returned
submit_test_after_matching(score, label, top_depts, worst_depts, similar_depts, submission, tags, result_id, saved, ids, rows) ==
    [response |-> [request             |-> "submit_test",
                   status              |-> 200,
                   id                  |-> result_id,
                   scores              |-> score.aptitude_scores,
                   interest_tags       |-> tags,
                   personality         |-> label,
                   summary             |-> [personality |->
                                               generate_personality_summary(label)],
                   top_departments     |-> top_depts,
                   worst_departments   |-> worst_depts,
                   similar_departments |-> similar_depts],
     generated_ids |-> ids \cup {result_id},
     test_results  |-> save_result_to_db(rows,
                           [id              |-> result_id,
                            user_answers    |-> submission,
                            user_scores     |-> score.aptitude_scores,
                            top_departments |-> top_depts],
                           saved)]

\* step 4 of submit_test on what match_departments gave
submit_test_after_loading(score, label, match, submission, tags, result_id, saved, ids, rows) ==
    IF match.status # "ok"
    THEN submission_failed(500, match.status, result_id, ids, rows)
    ELSE submit_test_after_matching(score, label,
             format_department_matches(match.top),
             format_department_matches(match.worst),
             format_similar_departments(match.similar),
             submission, tags, result_id, saved, ids, rows)

\* steps 3 and 4 of submit_test on what analyze_personality gave: the
\* departments are loaded (404 when the table is empty) and matched with
\* top_n = worst_n = 3
submit_test_after_analysis(score, personality_, department_rows, submission, tags, result_id, saved, ids, rows) ==
    IF personality_.status # "ok"
    THEN submission_failed(500, personality_.status, result_id, ids, rows)
    ELSE IF department_rows = <<>>
    THEN submission_failed(404, "no departments", result_id, ids, rows)
    ELSE submit_test_after_loading(score, personality_.label,
             match_departments(load_departments_from_db(department_rows),
                               score.aptitude_scores,
                               [given |-> TRUE, list |-> tags], 3, 3),
             submission, tags, result_id, saved, ids, rows)

\* steps 2 and 3 of submit_test on what calculate_score gave
submit_test_after_scoring(score, department_rows, submission, tags, result_id, saved, ids, rows) ==
    IF score.status # "ok"
    THEN submission_failed(500, score.status, result_id, ids, rows)
    ELSE submit_test_after_analysis(score, analyze_personality(score.aptitude_scores),
             department_rows, submission, tags, result_id, saved, ids, rows)

\* the validator and submit_test on the tables question_rows and
\* department_rows.  tags is the order list(set(...)) gives the interest
\* tags, result_id the id generate_result_id draws (one that is not in
\* _generated_ids), saved whether the insert succeeds.
submit_test(question_rows, department_rows, submission, tags, result_id, saved, ids, rows) ==
    IF ~validate_answers(submission)
    THEN submission_failed(422, "validation", result_id, ids, rows)
    ELSE IF question_rows = <<>>
    THEN submission_failed(404, "no questions", result_id, ids, rows)
    ELSE submit_test_after_scoring(calculate_score(question_rows, submission),
             department_rows, submission, tags, result_id, saved, ids, rows)

\* the 20 questions of QUESTIONS_DATA: two per category, the second one
\* reversed; with the tags of the first question, or as insert_questions
\* writes them, without tags
SeedQuestions(tagged) ==
    [k \in 1..REQUIRED_ANSWERS |->
        [aptitude_type |-> APTITUDE_NAMES[(k + 1) \div 2],
         is_reverse    |-> (k % 2 = 0),
         tags          |-> IF tagged /\ k = 1 THEN <<"reading", "writing">> ELSE <<>>]]

\* the questions table: empty, or seeded and tagged
QuestionTables == { <<>>, SeedQuestions(TRUE) }

DepartmentRow(id) == CHOOSE d \in DepartmentPool : d.id = id

\* a row whose aptitude_scores holds 9 values
BadDepartmentRow == [id |-> 9, aptitude_scores |-> [i \in 1..9 |-> 5], tags |-> <<>>]

\* the departments table: empty, four departments, three with a bad row
\* among them, only a bad row
DepartmentTables ==
    { <<>>,
      <<DepartmentRow(2), DepartmentRow(1), DepartmentRow(3), DepartmentRow(4)>>,
      <<DepartmentRow(4), BadDepartmentRow, DepartmentRow(2), DepartmentRow(1)>>,
      <<BadDepartmentRow>> }

\* submissions: 3 everywhere; 5 on the forward and 1 on the reverse
\* questions; one answer short; an answer of 6
Submissions ==
    { [k \in 1..REQUIRED_ANSWERS |-> 3],
      [k \in 1..REQUIRED_ANSWERS |-> IF k % 2 = 1 THEN 5 ELSE 1],
      [k \in 1..(REQUIRED_ANSWERS - 1) |-> 3],
      [k \in 1..REQUIRED_ANSWERS |-> IF k = 2 THEN 6 ELSE 3] }

\* the ids generate_result_id can draw: 8 characters, lower-case or digits
ResultIds == {[i \in 1..ID_LENGTH |-> c] : c \in {"a", "z", "0"}}

InitApi ==
    /\ questions \in QuestionTables
    /\ answers = <<>>
    /\ score_result = NoCall
    /\ answer_score = NoCall
    /\ user_scores = <<>>
    /\ personality = NoCall
    /\ departments \in DepartmentTables
    /\ match_args = NoCall
    /\ match_result = NoCall
    /\ SimilarIdle /\ RunIdle /\ ApiIdle

\* the orders list(set(tags)) can give the interest tags of a submission
InterestTagOrders(question_rows, submission) ==
    IF validate_answers(submission)
          /\ calculate_score(question_rows, submission).status = "ok"
    THEN Orderings(calculate_score(question_rows, submission).tag_set)
    ELSE {<<>>}

\* POST /api/results with one of the given submissions
SubmitTestOn(submissions) ==
    /\ Cardinality(generated_ids) < MaxIssued
    /\ \E submission \in submissions, result_id \in ResultIds \ generated_ids,
          saved \in BOOLEAN :
          \E tags \in InterestTagOrders(questions, submission) :
             LET out == submit_test(questions, departments, submission, tags,
                                    result_id, saved, generated_ids, test_results)
             IN  /\ answers' = submission
                 /\ generated_ids' = out.generated_ids
                 /\ test_results' = out.test_results
                 /\ \/ /\ out.response.status = 200
                       /\ \E similar \in with_common_tags(out.response.similar_departments) :
                             response' = [out.response EXCEPT !.similar_departments = similar]
                       /\ returned' = returned \cup {response'}
                    \/ /\ out.response.status # 200
                       /\ response' = out.response
                       /\ returned' = returned
    /\ UNCHANGED <<questions, score_result, answer_score, user_scores, personality,
                   departments, match_args, match_result, left, similarVars,
                   first_run>>

SubmitTest == SubmitTestOn(Submissions)

\* seed.py insert_questions, run on the table as it is (seed_database with
\* reset = False): the 20 questions are added, without their tags
InsertQuestions ==
    /\ Len(questions) <= REQUIRED_ANSWERS
    /\ questions' = questions \o SeedQuestions(FALSE)
    /\ UNCHANGED <<answers, score_result, answer_score, user_scores, personality,
                   departments, match_args, match_result, left, similarVars,
                   first_run, apiVars>>

NextApi == SubmitTest \/ InsertQuestions

SpecApi == InitApi /\ [][NextApi]_vars

-----------------------------------------------------------------------------
-----------------------------------------------------------------------------
(* utils/id_generator.py: a string is the sequence of its characters *)

MaxLength == 2

\* string.ascii_lowercase + string.digits
alphabet ==
    { "a", "b", "c", "d", "e", "f", "g", "h", "i", "j", "k", "l", "m",
      "n", "o", "p", "q", "r", "s", "t", "u", "v", "w", "x", "y", "z",
      "0", "1", "2", "3", "4", "5", "6", "7", "8", "9" }

\* an id generator that returns its first draw
generate_result_id_first_draw(length, draws, ids) ==
    [result_id |-> draws[1], drawn |-> 1, generated_ids |-> ids \cup {draws[1]}]

\* generate_result_id: draws lists the strings of the requested length that
\* the loop joins from secrets.choice, one for each round; the first one
\* outside _generated_ids is added to the set and returned
generate_result_id(length, draws, ids) ==
    LET round == CHOOSE k \in 1..Len(draws) :
                     /\ draws[k] \notin ids
                     /\ \A j \in 1..(k - 1) : draws[j] \in ids
    IN  [result_id |-> draws[round], drawn |-> round,
         generated_ids |-> ids \cup {draws[round]}]

\* an id check that looks at the characters only
is_valid_id_any_length(result_id, length) ==
    \A i \in 1..Len(result_id) : result_id[i] \in alphabet

\* is_valid_id: "not result_id" refuses the empty string
is_valid_id(result_id, length) ==
    IF result_id = <<>> \/ Len(result_id) # length
    THEN FALSE
    ELSE \A i \in 1..Len(result_id) : result_id[i] \in alphabet

\* clear_id_cache
clear_id_cache(ids) == {}

\* the characters secrets.choice is seen to draw
DrawnCharacters == {"a", "0"}

\* the strings of a length that one round of the loop can join
Joined(length) == [1..length -> DrawnCharacters]

\* the rounds of one call: every round but the last draws an id of the set
Draws(length, ids) ==
    {draws \in SeqsUpTo(Joined(length), 2) :
        /\ draws # <<>>
        /\ draws[Len(draws)] \notin ids
        /\ \A j \in 1..(Len(draws) - 1) : draws[j] \in ids}

InitIds ==
    /\ questions = <<>>
    /\ answers = <<>>
    /\ score_result = NoCall
    /\ answer_score = NoCall
    /\ user_scores = <<>>
    /\ personality = NoCall
    /\ departments = <<>>
    /\ match_args = NoCall
    /\ match_result = NoCall
    /\ SimilarIdle /\ RunIdle /\ ApiIdle

GenerateResultId ==
    /\ Cardinality(generated_ids) <= MaxIssued
    /\ \E length \in 0..MaxLength :
          \E draws \in Draws(length, generated_ids) :
             LET out == generate_result_id(length, draws, generated_ids)
             IN  /\ generated_ids' = out.generated_ids
                 /\ response' = [request   |-> "generate_result_id",
                                 length    |-> length,
                                 result_id |-> out.result_id,
                                 drawn     |-> out.drawn]
    /\ UNCHANGED <<questions, answers, score_result, answer_score, user_scores,
                   personality, departments, match_args, match_result, left,
                   similarVars, first_run, test_results, returned>>

ClearIdCache ==
    /\ generated_ids # {}
    /\ generated_ids' = clear_id_cache(generated_ids)
    /\ response' = [request |-> "clear_id_cache"]
    /\ UNCHANGED <<questions, answers, score_result, answer_score, user_scores,
                   personality, departments, match_args, match_result, left,
                   similarVars, first_run, test_results, returned>>

NextIds == GenerateResultId \/ ClearIdCache

SpecIds == InitIds /\ [][NextIds]_vars

-----------------------------------------------------------------------------
(* routers/results.py: GET and DELETE /api/results/{result_id} *)

\* db.fetchone with "WHERE id = ?": the first row of that id, or None
fetchone(rows, result_id) ==
    LET found == SelectSeq(rows, LAMBDA row : row.id = result_id)
    IN  IF found = <<>> THEN None ELSE found[1]

\* an HTTPException raised while a stored result is looked up or deleted
request_failed(request, result_id, status, detail) ==
    [request |-> request, result_id |-> result_id, status |-> status, detail |-> detail]

\* get_result on the questions table and the test_results table: 400 for
\* an id is_valid_id refuses, 404 when no row has the id or the questions
\* table is empty; the personality is computed from the stored scores
get_result(question_rows, rows, result_id) ==
    IF ~is_valid_id(result_id, ID_LENGTH)
    THEN request_failed("get_result", result_id, 400, "invalid id")
    ELSE IF fetchone(rows, result_id) = None
    THEN request_failed("get_result", result_id, 404, "not found")
    ELSE IF question_rows = <<>>
    THEN request_failed("get_result", result_id, 404, "no questions")
    ELSE LET row == fetchone(rows, result_id)
             personality_ == analyze_personality(row.user_scores)
         IN  IF personality_.status # "ok"
             THEN request_failed("get_result", result_id, 500, personality_.status)
             ELSE [request             |-> "get_result",
                   result_id           |-> result_id,
                   status              |-> 200,
                   id                  |-> row.id,
                   scores              |-> row.user_scores,
                   interest_tags       |-> <<>>,
                   personality         |-> personality_.label,
                   top_departments     |-> row.top_departments,
                   worst_departments   |-> <<>>,
                   similar_departments |-> <<>>]

\* a delete_result that deletes every row but the one of the id
delete_result_keeping_only(rows, result_id) ==
    IF ~is_valid_id(result_id, ID_LENGTH)
    THEN [response     |-> request_failed("delete_result", result_id, 400, "invalid id"),
          test_results |-> rows]
    ELSE IF fetchone(rows, result_id) = None
    THEN [response     |-> request_failed("delete_result", result_id, 404, "not found"),
          test_results |-> rows]
    ELSE [response     |-> [request |-> "delete_result", result_id |-> result_id,
                            status |-> 200, deleted_id |-> result_id],
          test_results |-> SelectSeq(rows, LAMBDA row : row.id = result_id)]

\* delete_result: 400 for an id is_valid_id refuses, 404 when no row has the
\* id, else "DELETE FROM test_results WHERE id = ?"
delete_result(rows, result_id) ==
    IF ~is_valid_id(result_id, ID_LENGTH)
    THEN [response     |-> request_failed("delete_result", result_id, 400, "invalid id"),
          test_results |-> rows]
    ELSE IF fetchone(rows, result_id) = None
    THEN [response     |-> request_failed("delete_result", result_id, 404, "not found"),
          test_results |-> rows]
    ELSE [response     |-> [request |-> "delete_result", result_id |-> result_id,
                            status |-> 200, deleted_id |-> result_id],
          test_results |-> SelectSeq(rows, LAMBDA row : row.id # result_id)]

\* the ids of the requests: those generate_result_id can draw, one that is
\* too short, one that is too long and one in upper case
RequestIds ==
    ResultIds \cup { <<"a", "a">>,
                     [i \in 1..(ID_LENGTH + 1) |-> "a"],
                     [i \in 1..ID_LENGTH |-> "A"] }

\* the tables are seeded: the 20 questions as insert_questions writes them
\* and four departments
InitStore ==
    /\ questions = SeedQuestions(FALSE)
    /\ answers = <<>>
    /\ score_result = NoCall
    /\ answer_score = NoCall
    /\ user_scores = <<>>
    /\ personality = NoCall
    /\ departments = <<DepartmentRow(2), DepartmentRow(1), DepartmentRow(3), DepartmentRow(4)>>
    /\ match_args = NoCall
    /\ match_result = NoCall
    /\ SimilarIdle /\ RunIdle /\ ApiIdle

\* GET /api/results/{result_id}
GetResult ==
    /\ \E result_id \in RequestIds :
          response' = get_result(questions, test_results, result_id)
    /\ UNCHANGED <<questions, answers, score_result, answer_score, user_scores,
                   personality, departments, match_args, match_result, left,
                   similarVars, first_run, generated_ids, test_results, returned>>

\* DELETE /api/results/{result_id}
DeleteResult ==
    /\ \E result_id \in RequestIds :
          LET out == delete_result(test_results, result_id)
          IN  /\ response' = out.response
              /\ test_results' = out.test_results
              /\ returned' = IF out.response.status = 200
                             THEN {r \in returned : r.id # result_id}
                             ELSE returned
    /\ UNCHANGED <<questions, answers, score_result, answer_score, user_scores,
                   personality, departments, match_args, match_result, left,
                   similarVars, first_run, generated_ids>>

\* POST /api/results with a submission that the validator accepts
SubmitValid == SubmitTestOn({v \in Submissions : validate_answers(v)})

NextStore == SubmitValid \/ GetResult \/ DeleteResult

SpecStore == InitStore /\ [][NextStore]_vars

(* Scoring on catalogs that cover the 10 categories, with the same answer  *)
(* to every question                                                       *)

\* the questions of one category as a list of is_reverse flags: a forward
\* one, a reverse one, the pair of QUESTIONS_DATA, three questions
Shapes == { <<FALSE>>, <<TRUE>>, <<FALSE, TRUE>>, <<TRUE, FALSE, FALSE>> }

CategoryQuestions(apt, shape) ==
    [k \in 1..Len(shape) |-> [aptitude_type |-> apt, is_reverse |-> shape[k], tags |-> <<>>]]

\* the questions of categories i..10, the first category in one shape and
\* the others in another
RECURSIVE CoveringFrom(_, _, _)
CoveringFrom(i, first, rest) ==
    IF i > Len(APTITUDE_NAMES) THEN <<>>
    ELSE CategoryQuestions(APTITUDE_NAMES[i], IF i = 1 THEN first ELSE rest)
             \o CoveringFrom(i + 1, first, rest)

\* catalogs with a question in every category, in the order of the
\* categories or against it; and catalogs without a question on language
UniformCatalogs ==
    {CoveringFrom(1, first, rest) : first \in Shapes, rest \in Shapes}
        \cup {Reversed(CoveringFrom(1, first, rest)) : first \in Shapes, rest \in Shapes}
        \cup {Tail(CoveringFrom(1, <<FALSE>>, rest)) : rest \in Shapes}

\* the one answer given to every question
UniformAnswers == {1, 3, 4, 5}

InitUniform ==
    /\ questions \in UniformCatalogs
    /\ answers = <<>>
    /\ score_result = NoCall
    /\ answer_score = NoCall
    /\ user_scores = <<>>
    /\ personality = NoCall
    /\ departments = <<>>
    /\ match_args = NoCall
    /\ match_result = NoCall
    /\ SimilarIdle /\ RunIdle /\ ApiIdle

CalculateUniformScore ==
    CalculateScoreOn({[k \in 1..Len(questions) |-> v] : v \in UniformAnswers})

NextUniform == CalculateUniformScore

SpecUniform == InitUniform /\ [][NextUniform]_vars

-----------------------------------------------------------------------------

(* Reasons: match_departments on departments and vectors that differ in    *)
(* which categories are strong and which are weak                          *)

ReasonPool ==
    { [id |-> 1, aptitude_scores |-> AllScores(6),  tags |-> <<>>],
      [id |-> 2, aptitude_scores |-> AllScores(10), tags |-> <<>>],
      [id |-> 3, aptitude_scores |-> <<9, 8, 7, 1, 1, 1, 1, 1, 6, 9>>, tags |-> <<>>],
      [id |-> 4, aptitude_scores |-> <<1, 1, 1, 1, 1, 1, 1, 1, 1, 7>>, tags |-> <<>>] }

\* lists of up to MaxD departments, none twice
ReasonLists ==
    {list \in SeqsUpTo(ReasonPool, MaxD) :
        \A i, j \in 1..Len(list) : list[i] = list[j] => i = j}

\* user vectors in tenths: strong at the start; strong in the middle and
\* strongest at the end, with 3.4 just below the threshold; weak in the
\* second category and weakest in the last; 3.0 and 0.5 everywhere
ReasonVectors ==
    { <<45, 40, 35, 10, 30, 30, 30, 30, 5, 20>>,
      <<10, 35, 50, 34, 30, 30, 30, 30, 25, 45>>,
      <<45, 15, 35, 10, 30, 30, 30, 30, 30, 10>>,
      AllScores(30), AllScores(5) }

InitReason ==
    /\ questions = <<>>
    /\ answers = <<>>
    /\ score_result = NoCall
    /\ answer_score = NoCall
    /\ user_scores = <<>>
    /\ personality = NoCall
    /\ departments \in ReasonLists
    /\ match_args = NoCall
    /\ match_result = NoCall
    /\ SimilarIdle /\ RunIdle /\ ApiIdle

\* match_departments as submit_test calls it, top_n = worst_n = 3, without tags
MatchForReasons ==
    MatchDepartmentsOn(ReasonVectors, {[given |-> FALSE, list |-> <<>>]}, {3}, {3})

NextReason == MatchForReasons

SpecReason == InitReason /\ [][NextReason]_vars

-----------------------------------------------------------------------------

(* Properties of scoring (checked under SpecScore) *)

\* the corrected score of question i as the specification words it:
\* 6 - answer if the question is reverse-scored, else the answer
Corrected(i) ==
    IF questions[i].is_reverse THEN 6 - answers[i] ELSE answers[i]

\* the questions of the c-th category of the fixed order
QuestionsOf(c) ==
    {i \in 1..Len(questions) : questions[i].aptitude_type = APTITUDE_NAMES[c]}

RECURSIVE CorrectedTotal(_)
CorrectedTotal(S) ==
    IF S = {} THEN 0
    ELSE LET i == CHOOSE x \in S : TRUE IN Corrected(i) + CorrectedTotal(S \ {i})

Abs(x) == IF x < 0 THEN -x ELSE x

ScoreCalled == score_result # NoCall

ScoreOk == score_result.status = "ok"

LengthsAgree == Len(answers) = Len(questions)

\* C1: calculate_score signals an error, and returns no aptitude vector,
\* whenever an answer list of the right length holds a value outside 1..5.
C1_OutOfRangeSignalsError ==
    (ScoreCalled /\ LengthsAgree /\ \E i \in 1..Len(answers) : answers[i] \notin 1..5)
        => (score_result.status # "ok" /\ "aptitude_scores" \notin DOMAIN score_result)

\* C2: calculate_score signals an error whenever the number of answers
\* differs from the number of questions, and then returns neither an
\* aptitude vector nor a tag list.
C2_LengthMismatchSignalsError ==
    (ScoreCalled /\ ~LengthsAgree)
        => (score_result.status = "ValueError" /\ DOMAIN score_result = {"status"})

C2_Witness ==
    /\ ScoreCalled
    /\ Len(answers) > Len(questions)
    /\ Len(questions) > 0
    /\ score_result.status = "ValueError"

\* C3 as stated: every value of a returned aptitude vector lies in [1,5].
C3_AllValuesIn1to5 ==
    (ScoreCalled /\ ScoreOk)
        => \A c \in 1..Len(score_result.aptitude_scores) :
              score_result.aptitude_scores[c] \in 10..50

\* C3 as amended: in a returned aptitude vector the value of a category
\* without questions is 0, and the value of a category with questions lies
\* between the least and the greatest corrected score of its questions, so
\* in [1,5] when all of them were answered within 1..5.
C3_ValuesZeroOrIn1to5 ==
    (ScoreCalled /\ ScoreOk)
        => \A c \in 1..Len(score_result.aptitude_scores) :
              LET v == score_result.aptitude_scores[c]
              IN  /\ QuestionsOf(c) = {} => v = 0
                  /\ QuestionsOf(c) # {}
                        => /\ \E i \in QuestionsOf(c) : 10 * Corrected(i) <= v
                           /\ \E i \in QuestionsOf(c) : v <= 10 * Corrected(i)
                  /\ (QuestionsOf(c) # {} /\ \A i \in QuestionsOf(c) : answers[i] \in 1..5)
                        => v \in 10..50

C3_Witness ==
    /\ ScoreCalled /\ ScoreOk
    /\ \A i \in 1..Len(answers) : answers[i] \in 1..5
    /\ score_result.aptitude_scores[1] = 50
    /\ score_result.aptitude_scores[2] = 0
    /\ score_result.aptitude_scores[10] = 10

\* C4: calculate_answer_score returns 6 - a for a reverse question and a for
\* a forward one; for a in 1..5 a reverse question has
\* score(a) + score(6 - a) = 6 and a forward one score(a) = a.
C4_AnswerScore ==
    answer_score # NoCall
        => LET q == answer_score.question
               a == answer_score.answer
           IN  /\ q.is_reverse => answer_score.score = 6 - a
               /\ ~q.is_reverse => answer_score.score = a
               /\ (q.is_reverse /\ a \in 1..5)
                     => answer_score.score + calculate_answer_score(q, 6 - a) = 6

C4_Witness ==
    /\ answer_score # NoCall
    /\ answer_score.question.is_reverse
    /\ answer_score.answer = 2
    /\ answer_score.score = 4

\* C5: the value of a category with questions is the arithmetic mean of the
\* corrected scores of exactly its questions, rounded to one decimal (it is
\* a tenth that lies within 0.05 of the mean); the value of a category
\* without questions is 0, and no error is signalled for it.
C5_CategoryMean ==
    (ScoreCalled /\ LengthsAgree)
        => /\ ScoreOk
           /\ \A c \in 1..Len(APTITUDE_NAMES) :
                 LET n == Cardinality(QuestionsOf(c))
                     v == score_result.aptitude_scores[c]
                 IN  IF n = 0 THEN v = 0
                     ELSE 2 * Abs(10 * CorrectedTotal(QuestionsOf(c)) - v * n) <= n

C5_Witness ==
    /\ ScoreCalled /\ ScoreOk
    /\ Cardinality(QuestionsOf(1)) = 3
    /\ CorrectedTotal(QuestionsOf(1)) = 11
    /\ score_result.aptitude_scores[1] = 37
    /\ QuestionsOf(10) = {}
    /\ score_result.aptitude_scores[10] = 0


\* the list s rearranged by the permutation p of its indices
Permuted(s, p) == [k \in 1..Len(s) |-> s[p[k]]]

\* the permutations of 1..n, for every catalog length n
Permutations ==
    [n \in 0..MaxQ |-> {p \in [1..n -> 1..n] : \A i, j \in 1..n : p[i] = p[j] => i = j}]

\* the catalog, and the answers, cut down to the questions of category c
IndexList(c) == IndicesOf(questions, APTITUDE_NAMES[c], 1)

OnlyCategory(s, c) == [k \in 1..Len(IndexList(c)) |-> s[IndexList(c)[k]]]

\* C6: a returned vector has exactly 10 entries; entry c belongs to the c-th
\* category of APTITUDE_NAMES (it is what the questions of that category
\* alone give, and they give 0 for every other entry); and rearranging the
\* questions and the answers in the same way leaves the vector unchanged.
C6_FixedCategoryOrder ==
    (ScoreCalled /\ ScoreOk)
        => /\ Len(score_result.aptitude_scores) = 10
           /\ \A c \in 1..10 :
                 calculate_score(OnlyCategory(questions, c),
                                 OnlyCategory(answers, c)).aptitude_scores
                     = [d \in 1..10 |->
                           IF d = c THEN score_result.aptitude_scores[c] ELSE 0]
           /\ \A p \in Permutations[Len(questions)] :
                 calculate_score(Permuted(questions, p), Permuted(answers, p)).aptitude_scores
                     = score_result.aptitude_scores

C6_Witness ==
    /\ ScoreCalled /\ ScoreOk
    /\ Len(questions) = 3
    /\ questions[1].aptitude_type = "problem_solving"
    /\ questions[2].aptitude_type = "language"
    /\ questions[3].aptitude_type = "problem_solving"
    /\ answers[1] # answers[3]
    /\ score_result.aptitude_scores[1] = 20
    /\ score_result.aptitude_scores[10] = 35

\* C7: the returned interest tags are, as a set, the union of the tags of
\* the questions whose corrected score is at least 4, and no tag occurs
\* twice in the returned list.
C7_InterestTags ==
    (ScoreCalled /\ ScoreOk)
        => LET tags == score_result.interest_tags
           IN  /\ Range(tags) =
                     {t \in UNION {Range(questions[i].tags) : i \in 1..Len(questions)} :
                         \E i \in 1..Len(questions) :
                             Corrected(i) >= 4 /\ t \in Range(questions[i].tags)}
               /\ \A j, k \in 1..Len(tags) : tags[j] = tags[k] => j = k

\* two high-scoring questions share a tag, a low-scoring reverse question
\* answered 4 contributes nothing
C7_Witness ==
    /\ ScoreCalled /\ ScoreOk
    /\ Len(questions) = 3
    /\ questions[1].tags = <<"reading", "writing">> /\ Corrected(1) = 4
    /\ questions[2].tags = <<"reading">> /\ Corrected(2) >= 4
    /\ questions[3].is_reverse /\ answers[3] = 4
    /\ score_result.interest_tags = <<"writing", "reading">>

-----------------------------------------------------------------------------
(* Properties of classification (checked under SpecPersonality) *)

PersonalityOk == personality # NoCall /\ personality.status = "ok"

\* the positions of user_scores that hold its greatest value
MaxPositions ==
    {i \in 1..Len(user_scores) : \A j \in 1..Len(user_scores) : user_scores[j] <= user_scores[i]}

\* the greatest of them
HighestMaxPosition == CHOOSE i \in MaxPositions : \A j \in MaxPositions : j <= i

\* the label of the category at position i of the fixed order (idx i - 1)
LabelAt(i) == personality_map[i - 1]

\* C9: for a vector of 10 values analyze_personality returns the label of an
\* index that holds the maximum, and of the highest such index when several
\* hold it.
C9_HighestMaxIndex ==
    (personality # NoCall /\ Len(user_scores) = 10)
        => /\ personality.status = "ok"
           /\ \E i \in MaxPositions : personality.label = LabelAt(i)
           /\ personality.label = LabelAt(HighestMaxPosition)

C9_Witness ==
    /\ PersonalityOk
    /\ MaxPositions = {2, 5, 7}
    /\ personality.label = "art_type"

\* C10: for a vector of 10 values analyze_personality returns one of the 10
\* fixed labels, the one the 1:1 index-to-label table holds at the selected
\* index; it never returns the fallback label, and every label it returns
\* has its own entry in the personality template table of ResultSummary.
C10_LabelInTables ==
    (personality # NoCall /\ Len(user_scores) = 10)
        => /\ personality.status = "ok"
           /\ \E idx \in 0..9 :
                 /\ personality.label = personality_map[idx]
                 /\ \A other \in 0..9 : personality_map[other] = personality.label => other = idx
                 /\ idx = HighestMaxPosition - 1
           /\ personality.label # "balanced_type"
           /\ generate_personality_summary(personality.label) = <<"template", personality.label>>

C10_Witness ==
    /\ PersonalityOk
    /\ MaxPositions = {10}
    /\ personality.label = "execution_type"
    /\ generate_personality_summary(personality.label) # <<"default">>

-----------------------------------------------------------------------------
(* Properties of the vector length check (checked under SpecMatch) *)

\* C8: analyze_personality and match_departments both signal an error, and
\* return no label and no match lists, for every vector whose length is not
\* exactly 10.
C8_VectorLengthChecked ==
    /\ (personality # NoCall /\ Len(user_scores) # 10)
          => (personality.status = "ValueError" /\ DOMAIN personality = {"status"})
    /\ (match_result # NoCall /\ Len(match_args.user_scores) # 10)
          => (match_result.status = "ValueError" /\ DOMAIN match_result = {"status"})

C8_Witness ==
    /\ personality # NoCall /\ match_result # NoCall
    /\ Len(user_scores) = 11 /\ Len(match_args.user_scores) = 11
    /\ Len(departments) > 0
    /\ personality.status = "ValueError"
    /\ match_result.status = "ValueError"

-----------------------------------------------------------------------------
(* Properties of the match percentage (checked under SpecMatch) *)

MatchOk == match_result # NoCall /\ match_result.status = "ok"

\* the entries of the top and the worst list of the call
MatchEntries ==
    {match_result.top[k] : k \in 1..Len(match_result.top)}
        \cup {match_result.worst[k] : k \in 1..Len(match_result.worst)}

\* 100 times the squared Euclidean distance between the user's rescaled
\* vector and the scores of a department (user values are in tenths)
SquaredDistance100(dept) ==
    SumSeq([i \in 1..10 |->
               (2 * match_args.user_scores[i] - 10 * dept.aptitude_scores[i])
                   * (2 * match_args.user_scores[i] - 10 * dept.aptitude_scores[i])])

\* C11: every match percentage in the top and worst lists lies between 0 and
\* 100 (0..1000 tenths), also for vectors further apart than sqrt(810).
C11_PercentageInRange ==
    MatchOk => \A e \in MatchEntries :
                  e.match_percentage >= 0 /\ e.match_percentage <= 1000

\* a department further than sqrt(810) from the user, next to a nearer one
C11_Witness ==
    /\ MatchOk
    /\ \E e \in MatchEntries :
          SquaredDistance100(e.department) > 81000 /\ e.match_percentage = 0
    /\ \E e \in MatchEntries :
          SquaredDistance100(e.department) < 81000 /\ e.match_percentage > 0

\* C12: a department whose scores equal the user's values times 2 on every
\* dimension gets exactly 100.0.
C12_IdenticalVectorIs100 ==
    MatchOk => \A e \in MatchEntries :
                  (\A i \in 1..10 :
                      10 * e.department.aptitude_scores[i] = 2 * match_args.user_scores[i])
                      => e.match_percentage = 1000

C12_Witness ==
    /\ MatchOk
    /\ \E k \in 1..Len(match_result.top) :
          /\ \A i \in 1..10 :
                10 * match_result.top[k].department.aptitude_scores[i]
                    = 2 * match_args.user_scores[i]
          /\ match_result.top[k].match_percentage = 1000

\* C13: a department at squared distance 810 or more (as the all-10
\* department is from a user who is 1 everywhere after rescaling) gets
\* exactly 0.0.
C13_FarthestIsZero ==
    MatchOk => \A e \in MatchEntries :
                  SquaredDistance100(e.department) >= 81000 => e.match_percentage = 0

C13_Witness ==
    /\ MatchOk
    /\ match_args.user_scores = AllScores(5)
    /\ \E k \in 1..Len(match_result.worst) :
          /\ match_result.worst[k].department.aptitude_scores = AllScores(10)
          /\ SquaredDistance100(match_result.worst[k].department) = 81000
          /\ match_result.worst[k].match_percentage = 0

-----------------------------------------------------------------------------
(* Properties of the top and worst lists (checked under SpecMatch) *)

Min(a, b) == IF a < b THEN a ELSE b

\* the percentage of a department of the list for the user of the call
PercentageOf(dept) ==
    calculate_match_percentage(scale_user_scores(match_args.user_scores),
                               dept.aptitude_scores)

DepartmentsIn(list) == {list[k].department : k \in 1..Len(list)}

\* list holds n departments of the matcher, none twice, each with its own
\* percentage
SelectionOf(list, n) ==
    /\ Len(list) = Min(n, Len(departments))
    /\ \A k \in 1..Len(list) :
          /\ list[k].department \in Range(departments)
          /\ list[k].match_percentage = PercentageOf(list[k].department)
    /\ \A j, k \in 1..Len(list) : list[j].department = list[k].department => j = k

\* C14: for every department list and every top_n >= 0, top holds
\* min(top_n, size) departments in non-increasing order of percentage, and
\* no department left out of it has a higher percentage than one in it.
C14_TopIsFirstN ==
    MatchOk =>
        LET top == match_result.top
        IN  /\ SelectionOf(top, match_args.top_n)
            /\ \A k \in 1..(Len(top) - 1) :
                  top[k].match_percentage >= top[k + 1].match_percentage
            /\ \A d \in Range(departments) \ DepartmentsIn(top) :
                  \A k \in 1..Len(top) : PercentageOf(d) <= top[k].match_percentage

\* two of three departments are selected, against the order of the list, and
\* the one left out is strictly worse
C14_Witness ==
    /\ MatchOk
    /\ match_args.top_n = 2 /\ Len(departments) = 3 /\ Len(match_result.top) = 2
    /\ match_result.top[1].department = departments[3]
    /\ match_result.top[1].match_percentage > match_result.top[2].match_percentage
    /\ \E d \in Range(departments) \ DepartmentsIn(match_result.top) :
          PercentageOf(d) < match_result.top[2].match_percentage

\* C15 (as stated): for every department list and every worst_n >= 0, also
\* worst_n = 0, worst holds min(worst_n, size) departments in non-decreasing
\* order of percentage, and no department left out of it has a lower
\* percentage than one in it.
C15_WorstIsLastN ==
    MatchOk =>
        LET worst == match_result.worst
        IN  /\ SelectionOf(worst, match_args.worst_n)
            /\ \A k \in 1..(Len(worst) - 1) :
                  worst[k].match_percentage <= worst[k + 1].match_percentage
            /\ \A d \in Range(departments) \ DepartmentsIn(worst) :
                  \A k \in 1..Len(worst) : PercentageOf(d) >= worst[k].match_percentage

-----------------------------------------------------------------------------
(* Properties of the tag recommendation (checked under SpecSimilar) *)

\* the tags a department shares with a list of user tags
SharedTags(dept, user_tags) == Range(dept.tags) \cap Range(user_tags)

\* the departments of the matcher outside exclude_ids that share a tag
Eligible(user_tags, exclude_ids) ==
    {d \in Range(departments) :
        d.id \notin exclude_ids /\ SharedTags(d, user_tags) # {}}

C17_SimilarOrderAndCap ==
    /\ similar_result # NoCall =>
          \A k \in 1..(Len(similar_result.list) - 1) :
              similar_result.list[k].tag_match_count
                  >= similar_result.list[k + 1].tag_match_count
    /\ (MatchOk /\ Truthy(match_args.user_tags)) =>
          LET similar  == match_result.similar
              tags     == match_args.user_tags.list
              eligible == Eligible(tags, {d.id : d \in DepartmentsIn(match_result.top)})
          IN  /\ Len(similar) = Min(3, Cardinality(eligible))
              /\ DepartmentsIn(similar) \subseteq eligible
              /\ \A j, k \in 1..Len(similar) :
                    similar[j].department = similar[k].department => j = k
              /\ \A k \in 1..Len(similar) :
                    similar[k].tag_match_count
                        = Cardinality(SharedTags(similar[k].department, tags))
              /\ \A k \in 1..(Len(similar) - 1) :
                    similar[k].tag_match_count >= similar[k + 1].tag_match_count
              /\ \A d \in eligible \ DepartmentsIn(similar) :
                    \A k \in 1..Len(similar) :
                        Cardinality(SharedTags(d, tags)) <= similar[k].tag_match_count

\* four departments are eligible, the cap keeps three, and the one that
\* shares the most tags is kept though it comes last in the matcher's list
C17_Witness ==
    /\ MatchOk /\ Truthy(match_args.user_tags)
    /\ Len(departments) = 4
    /\ Cardinality(Eligible(match_args.user_tags.list,
                            {d.id : d \in DepartmentsIn(match_result.top)})) = 4
    /\ Len(match_result.similar) = 3
    /\ match_result.similar[1].department = departments[4]
    /\ match_result.similar[1].tag_match_count > match_result.similar[3].tag_match_count

-----------------------------------------------------------------------------
(* Properties of repeated runs (checked under SpecRun) *)

\* two similar lists with the same departments and counts in the same order
\* and the same common tags in each entry
SameSimilar(a, b) ==
    /\ Len(a) = Len(b)
    /\ \A k \in 1..Len(a) :
          /\ a[k].department = b[k].department
          /\ a[k].tag_match_count = b[k].tag_match_count
          /\ Range(a[k].common_tags) = Range(b[k].common_tags)

LeftAsPassed ==
    left # NoCall =>
        /\ left.of = "calculate_score" => left.answers = answers
        /\ left.of = "analyze_personality" => left.scores = user_scores
        /\ left.of = "match_departments" =>
              /\ left.user_scores = match_args.user_scores
              /\ left.user_tags = match_args.user_tags
        /\ left.of = "find_similar_by_tags" => left.user_tags = similar_args.user_tags

-----------------------------------------------------------------------------
(* Properties of POST /api/results (checked under SpecApi) *)

\* scoring, classification or matching raises on an accepted submission
EngineFails(question_rows, department_rows, submission) ==
    /\ validate_answers(submission)
    /\ question_rows # <<>>
    /\ LET score == calculate_score(question_rows, submission)
       IN  \/ score.status # "ok"
           \/ analyze_personality(score.aptitude_scores).status # "ok"
           \/ /\ department_rows # <<>>
              /\ match_departments(load_departments_from_db(department_rows),
                                   score.aptitude_scores,
                                   [given |-> TRUE, list |-> <<>>], 3, 3).status # "ok"

\* C20: when scoring, classification or matching fails inside submit_test,
\* the request ends in an error response, and a request that ends in an
\* error response issues no result id and writes nothing to test_results
\* (a step that leaves the questions table alone is a request).
C20_NoPartialResult ==
    [][(response' # NoCall /\ response'.request = "submit_test"
            /\ questions' = questions) =>
          /\ EngineFails(questions, departments, answers') => response'.status >= 400
          /\ response'.status >= 400 =>
                /\ generated_ids' = generated_ids
                /\ test_results' = test_results]_vars

\* scoring has failed (the table holds 40 questions) after a result was
\* issued and stored, and both are as they were
C20_Witness ==
    /\ response # NoCall
    /\ response.status = 500
    /\ EngineFails(questions, departments, answers)
    /\ Cardinality(generated_ids) = 1
    /\ Len(test_results) = 1

-----------------------------------------------------------------------------
(* Properties of the empty department list (checked under SpecSimilar) *)

\* C21: with an empty department list, match_departments on a vector of 10
\* values returns empty top, worst and similar lists and signals no error,
\* and find_similar_by_tags returns an empty list.
C21_EmptyCatalog ==
    departments = <<>> =>
        /\ (match_result # NoCall /\ Len(match_args.user_scores) = 10) =>
              /\ match_result.status = "ok"
              /\ match_result.top = <<>>
              /\ match_result.worst = <<>>
              /\ match_result.similar = <<>>
        /\ similar_result # NoCall =>
              /\ similar_result.status = "ok"
              /\ similar_result.list = <<>>

\* match_departments was called on the empty list with top_n = worst_n = 1
\* and with tags, so that it called find_similar_by_tags
C21_Witness ==
    /\ departments = <<>>
    /\ MatchOk
    /\ match_args.top_n = 1 /\ match_args.worst_n = 1
    /\ Len(match_args.user_tags.list) = 2
    /\ match_result.top = <<>> /\ match_result.worst = <<>>
    /\ match_result.similar = <<>>

-----------------------------------------------------------------------------
(* Properties of uniform answers (checked under SpecUniform) *)

\* every one of the 10 categories has a question in the catalog
CoversAllCategories ==
    \A i \in 1..Len(APTITUDE_NAMES) :
        \E k \in 1..Len(questions) : questions[k].aptitude_type = APTITUDE_NAMES[i]

\* C22: on a catalog with at least one question in each of the 10
\* categories (one forward and one reverse in QUESTIONS_DATA), the answer 3
\* to every question yields the aptitude vector that is 3.0 everywhere.
C22_AllThreeIsThree ==
    (ScoreCalled /\ CoversAllCategories /\ LengthsAgree
        /\ \A k \in 1..Len(answers) : answers[k] = 3)
        => /\ score_result.status = "ok"
           /\ score_result.aptitude_scores = AllScores(30)

\* 20 questions, a forward and a reverse one per category, all answered 3
C22_Witness ==
    /\ ScoreCalled /\ CoversAllCategories
    /\ Len(questions) = 20 /\ Len(answers) = 20
    /\ \A k \in 1..20 : answers[k] = 3 /\ questions[k].is_reverse = (k % 2 = 0)
    /\ score_result.status = "ok"
    /\ score_result.aptitude_scores = AllScores(30)

-----------------------------------------------------------------------------
-----------------------------------------------------------------------------
(* Properties of the three lists together (checked under SpecMatch) *)

IdsIn(list) == {list[k].department.id : k \in 1..Len(list)}

PositiveReasons == {"generic_match", "strengths"}

MismatchReasons == {"generic_mismatch", "weakness"}

\* C25: every entry of top and worst carries a positive reason, every entry of
\* worst carries a mismatch reason, and an entry of top carries a mismatch
\* reason only if its department is in worst as well.
C25_ReasonsCarried ==
    MatchOk =>
        /\ \A e \in MatchEntries :
              "reason" \in DOMAIN e /\ e.reason.kind \in PositiveReasons
        /\ \A k \in 1..Len(match_result.worst) :
              LET e == match_result.worst[k]
              IN  "mismatch_reason" \in DOMAIN e
                      /\ e.mismatch_reason.kind \in MismatchReasons
        /\ \A k \in 1..Len(match_result.top) :
              LET e == match_result.top[k]
              IN  "mismatch_reason" \in DOMAIN e
                      => e.department \in DepartmentsIn(match_result.worst)

\* of three departments the first two are in top and the last two in worst:
\* one top entry has a mismatch reason and the other has none
C25_Witness ==
    /\ MatchOk
    /\ Len(match_result.top) = 2
    /\ Len(match_result.worst) = 2
    /\ "mismatch_reason" \notin DOMAIN match_result.top[1]
    /\ "mismatch_reason" \in DOMAIN match_result.top[2]
    /\ match_result.top[2] = match_result.worst[2]

\* the user's tags, the empty list when none were given
TagsGiven == IF match_args.user_tags.given THEN match_args.user_tags.list ELSE <<>>

\* C26: no department of similar has the id of a department of top; similar
\* is empty when the user's tag list is empty or missing; and a department that
\* shares a tag with the user and is not in top is not kept out of similar
\* for being in worst: when at most 3 such departments exist, similar holds
\* all of them.
C26_SimilarExcludesTopOnly ==
    MatchOk =>
        LET eligible == Eligible(TagsGiven, IdsIn(match_result.top))
        IN  /\ IdsIn(match_result.similar) \cap IdsIn(match_result.top) = {}
            /\ TagsGiven = <<>> => match_result.similar = <<>>
            /\ DepartmentsIn(match_result.similar) \subseteq eligible
            /\ Cardinality(eligible) <= 3
                  => DepartmentsIn(match_result.similar) = eligible

\* a department of top shares a tag with the user and is not in similar,
\* while a department of worst is in similar
C26_Witness ==
    /\ MatchOk
    /\ \E d \in DepartmentsIn(match_result.top) :
          /\ SharedTags(d, TagsGiven) # {}
          /\ d \notin DepartmentsIn(match_result.similar)
    /\ DepartmentsIn(match_result.similar) \cap DepartmentsIn(match_result.worst) # {}

\* C27: when the departments have distinct ids, worst_n is at least 1 and the
\* catalog has at least top_n + worst_n departments, no department is in both
\* top and worst, also when percentages tie.
C27_TopWorstDisjoint ==
    (/\ MatchOk
     /\ \A j, k \in 1..Len(departments) :
           departments[j].id = departments[k].id => j = k
     /\ match_args.worst_n >= 1
     /\ Len(departments) >= match_args.top_n + match_args.worst_n)
        => IdsIn(match_result.top) \cap IdsIn(match_result.worst) = {}

\* the catalog has exactly top_n + worst_n departments, and the last of top
\* and the last of worst, neighbours in the sorted list, have equal percentages
C27_Witness ==
    /\ MatchOk
    /\ match_args.top_n >= 1
    /\ match_args.worst_n >= 1
    /\ Len(departments) = match_args.top_n + match_args.worst_n
    /\ match_result.top[Len(match_result.top)].match_percentage
           = match_result.worst[Len(match_result.worst)].match_percentage
    /\ IdsIn(match_result.top) \cap IdsIn(match_result.worst) = {}

(* Properties of the reasons (checked under SpecReason) *)

\* the user's value in category i on the 1-10 scale, in tenths
Rescaled(i) == 2 * match_args.user_scores[i]

\* the categories in which user and department both reach 7
Strong(dept) ==
    {i \in 1..10 : Rescaled(i) >= 70 /\ dept.aptitude_scores[i] >= 7}

\* the categories in which the department exceeds the user by 5 or more
Weak(dept) ==
    {i \in 1..10 : 10 * dept.aptitude_scores[i] - Rescaled(i) >= 50}

\* the j-th smallest element of a set of numbers
Nth(S, j) == CHOOSE i \in S : Cardinality({y \in S : y < i}) = j - 1

\* C23: generate_match_reason names the first min(2, k) of the k categories
\* where the rescaled user value and the department value are both at least
\* 7, in category order, each with the user's value divided by 2, and gives
\* the generic sentence exactly when k = 0.
C23_MatchReason ==
    MatchOk => \A e \in MatchEntries :
        LET strong == Strong(e.department)
            k      == Cardinality(strong)
        IN  /\ e.reason.kind = "generic_match" <=> k = 0
            /\ k > 0 =>
                  /\ e.reason.kind = "strengths"
                  /\ Len(e.reason.named) = Min(2, k)
                  /\ \A j \in 1..Len(e.reason.named) :
                        e.reason.named[j]
                            = <<APTITUDE_NAMES[Nth(strong, j)],
                                match_args.user_scores[Nth(strong, j)]>>

\* three categories qualify, the first category does not, and the category
\* left unnamed has a larger user value than one that is named
C23_Witness ==
    /\ MatchOk
    /\ \E e \in MatchEntries :
          /\ Strong(e.department) = {2, 3, 10}
          /\ e.reason.kind = "strengths"
          /\ e.reason.named = <<<<"logic_analysis", 35>>, <<"creativity", 50>>>>
          /\ Rescaled(10) > Rescaled(2)

-----------------------------------------------------------------------------
(* Properties of the id generator (checked under SpecIds) *)

\* C29: between calls of clear_id_cache, generate_result_id returns no id it
\* has returned before (the ids returned since the last clear_id_cache are
\* those of _generated_ids); a returned id has the requested length and only
\* lower-case letters and digits, and for a length of at least 1 is_valid_id
\* accepts it for that length.
C29_FreshValidIds ==
    [][(response' # NoCall /\ response'.request = "generate_result_id") =>
          LET id == response'.result_id
          IN  /\ id \notin generated_ids
              /\ generated_ids' = generated_ids \cup {id}
              /\ Len(id) = response'.length
              /\ \A i \in 1..Len(id) : id[i] \in alphabet
              /\ response'.length >= 1 => is_valid_id(id, response'.length)]_vars

\* the call drew an id of the set, drew again and returned a second id of
\* the same length as the first
C29_Witness ==
    /\ response # NoCall
    /\ response.request = "generate_result_id"
    /\ response.drawn = 2
    /\ response.length = 2
    /\ \E other \in generated_ids :
          other # response.result_id /\ Len(other) = Len(response.result_id)

-----------------------------------------------------------------------------
(* Properties of stored results (checked under SpecStore) *)

\* C28: a get_result with an id that a successful submit_test returned, with
\* no delete_result of that id in between, answers 200 with the aptitude
\* scores, the top departments and the personality label of that submission.
C28_ReturnedIdRetrievable ==
    [][(response' # NoCall /\ response'.request = "get_result") =>
          \A r \in returned :
              r.id = response'.result_id =>
                  /\ response'.status = 200
                  /\ response'.scores = r.scores
                  /\ response'.top_departments = r.top_departments
                  /\ response'.personality = r.personality]_vars

\* a string of ID_LENGTH lower-case letters and digits
WellFormed(result_id) ==
    /\ Len(result_id) = ID_LENGTH
    /\ \A i \in 1..Len(result_id) : result_id[i] \in alphabet

Stored(rows, result_id) == \E k \in 1..Len(rows) : rows[k].id = result_id

\* C30: delete_result with the well-formed id of a stored result removes that
\* row and no other, so that no row has the id any more; get_result and
\* delete_result answer 400 to an ill-formed id and 404 to a well-formed id
\* that no row has, as it is after the deletion, and leave the rows as they
\* are in both cases.
C30_DeleteAndLookup ==
    [][(response' # NoCall /\ response'.request \in {"get_result", "delete_result"}) =>
          LET id == response'.result_id
          IN  /\ ~WellFormed(id) =>
                    response'.status = 400 /\ test_results' = test_results
              /\ (WellFormed(id) /\ ~Stored(test_results, id)) =>
                    response'.status = 404 /\ test_results' = test_results
              /\ (response'.request = "delete_result" /\ WellFormed(id)
                      /\ Stored(test_results, id)) =>
                    /\ response'.status = 200
                    /\ test_results' = SelectSeq(test_results, LAMBDA row : row.id # id)
                    /\ Len(test_results') = Len(test_results) - 1
                    /\ ~Stored(test_results', id)]_vars

\* one of two stored results has been deleted and the other one is left
C30_Witness ==
    /\ response # NoCall
    /\ response.request = "delete_result"
    /\ response.status = 200
    /\ Len(test_results) = 1
    /\ test_results[1].id # response.result_id
    /\ Cardinality(generated_ids) = 2

====
